---- MODULE Spec2Model ----
(***************************************************************************)
(* Model of the two extension scanners of crates/php-rs/bench:             *)
(*   scan-framework-extensions.py  (fixed table of framework manifests)    *)
(*   scan-packagist-extensions.py  (popular list, then one fetch/package)  *)
(* Strings that the code inspects character by character (require keys,    *)
(* version strings, package names) are tuples of one-character strings.    *)
(* A JSON value is a record [t, items, s]: t is its type, items the        *)
(* ordered <<key, value>> pairs of an object or the elements of an array,  *)
(* s the characters of a string.                                           *)
(***************************************************************************)
EXTENDS Integers, Sequences, FiniteSets, TLC

\* ------------------------------------------------------------------ bounds
\* longest versions mapping of a package, longest popular list
MaxVersions == 2
MaxPopular == 2

\* name = value; body -- the value of an assignment is computed once, then
\* the statements after it run with the name bound to it
Bind(value, Body(_)) == CHOOSE r \in {Body(x) : x \in {value}} : TRUE

\* ----------------------------------------------------------- str methods
\* code points of the characters of the strings that get sorted
Ord == ("-" :> 45) @@ ("a" :> 97) @@ ("b" :> 98) @@ ("e" :> 101)
       @@ ("t" :> 116) @@ ("x" :> 120)

\* str.__lt__: lexicographic by code point, a proper prefix is smaller
RECURSIVE LexLess(_, _)
LexLess(s, t) ==
  IF t = <<>> THEN FALSE
  ELSE IF s = <<>> THEN TRUE
  ELSE IF Ord[Head(s)] < Ord[Head(t)] THEN TRUE
  ELSE IF Ord[Head(s)] > Ord[Head(t)] THEN FALSE
  ELSE LexLess(Tail(s), Tail(t))

\* str.startswith
startswith(s, p) == Len(s) >= Len(p) /\ SubSeq(s, 1, Len(p)) = p

\* str.replace(old, new) for a non-empty old: every non-overlapping
\* occurrence, scanning left to right
RECURSIVE replace(_, _, _)
replace(s, old, new) ==
  IF Len(s) < Len(old) THEN s
  ELSE IF startswith(s, old)
       THEN new \o replace(SubSeq(s, Len(old) + 1, Len(s)), old, new)
       ELSE <<Head(s)>> \o replace(Tail(s), old, new)

\* the `in` operator on strings: sub occurs somewhere in s
RECURSIVE contains(_, _)
contains(s, sub) ==
  IF Len(s) < Len(sub) THEN FALSE
  ELSE startswith(s, sub) \/ contains(Tail(s), sub)

\* int() of a decimal text with an optional sign
DigitVal == ("0" :> 0) @@ ("1" :> 1) @@ ("2" :> 2) @@ ("3" :> 3) @@ ("4" :> 4)
            @@ ("5" :> 5) @@ ("6" :> 6) @@ ("7" :> 7) @@ ("8" :> 8) @@ ("9" :> 9)

RECURSIVE digits(_, _)
digits(acc, s) ==
  IF s = <<>> THEN acc ELSE digits(acc * 10 + DigitVal[Head(s)], Tail(s))

int(s) == IF Head(s) = "-" THEN 0 - digits(0, Tail(s)) ELSE digits(0, s)

\* sorted() on a list of strings
RECURSIVE insort(_, _)
insort(x, s) ==
  IF s = <<>> THEN <<x>>
  ELSE IF LexLess(x, Head(s)) THEN <<x>> \o s
  ELSE <<Head(s)>> \o insort(x, Tail(s))

RECURSIVE sorted(_)
sorted(s) ==
  IF s = <<>> THEN <<>>
  ELSE Bind(sorted(Tail(s)), LAMBDA rest : insort(Head(s), rest))

\* s[:n]: a negative n counts from the end
slice(s, n) ==
  LET stop == IF n < 0
              THEN (IF Len(s) + n < 0 THEN 0 ELSE Len(s) + n)
              ELSE (IF n > Len(s) THEN Len(s) ELSE n)
  IN SubSeq(s, 1, stop)

\* ------------------------------------------------------------------- dict
\* A dict is the sequence of its <<key, value>> pairs in insertion order.
DictHas(d, k) == \E j \in 1..Len(d) : d[j][1] = k

DictGet(d, k, default) ==
  IF DictHas(d, k) THEN d[CHOOSE j \in 1..Len(d) : d[j][1] = k][2] ELSE default

\* (mutant) the mapping is rebound to the one new entry
DictSetClobber(d, k, v) == << <<k, v>> >>

\* d[k] = v : an existing key keeps its position, a new key goes last
DictSet(d, k, v) ==
  IF DictHas(d, k)
  THEN [j \in 1..Len(d) |-> IF d[j][1] = k THEN <<k, v>> ELSE d[j]]
  ELSE Append(d, <<k, v>>)

keys(d) == [j \in 1..Len(d) |-> d[j][1]]
values(d) == [j \in 1..Len(d) |-> d[j][2]]

\* ------------------------------------------------------------ JSON values
Obj(items) == [t |-> "object", items |-> items, s |-> <<>>]
Str(s) == [t |-> "string", items |-> <<>>, s |-> s]
List(items) == [t |-> "array", items |-> items, s |-> <<>>]
Null == [t |-> "null", items |-> <<>>, s |-> <<>>]
Arr == List(<<Null>>)

\* truth value of a decoded JSON value (`not versions`)
Truthy(v) ==
  CASE v.t = "object" -> v.items # <<>>
    [] v.t = "array" -> v.items # <<>>
    [] v.t = "string" -> v.s # <<>>
    [] OTHER -> FALSE

\* dict.get(key, default) on a decoded object
get(obj, key, default) == DictGet(obj.items, key, default)

\* ---------------------------------------------------------------- inputs
ExtPrefix == <<"e", "x", "t", "-">>
Dev == <<"d", "e", "v">>
PhpKey == <<"p", "h", "p">>
PhpConstraint == <<">", "=", "8", ".", "1">>
Star == <<"*">>
ExtA == ExtPrefix \o <<"a">>
ExtB == ExtPrefix \o <<"b">>
ExtAExt == ExtA \o ExtPrefix

RequireValue(k) == IF k = PhpKey THEN Str(PhpConstraint) ELSE Str(Star)

RequireObj(ks) == Obj([j \in 1..Len(ks) |-> <<ks[j], RequireValue(ks[j])>>])

\* the key listings of the require mappings the framework endpoints serve
RequireKeySeqs == { <<>>, <<ExtB>>, <<ExtB, PhpKey, ExtA>>, <<ExtAExt, ExtA>> }

\* decoded manifests: no require, a require mapping, a require of wrong shape
Manifests == {Obj(<<>>)}
             \cup {Obj(<< <<"require", RequireObj(ks)>> >>) : ks \in RequireKeySeqs}
             \cup {Obj(<< <<"require", w>> >>) : w \in {Arr, Null, Str(Star)}}

\* what one urlopen + json.loads yields: an exception or a decoded body
Failed(exc) == [ok |-> FALSE, exc |-> exc, body |-> Null]
Fetched(body) == [ok |-> TRUE, exc |-> <<>>, body |-> body]
NoResponse == Failed(<<>>)

FrameworkResponses == {Failed(<<"URLError", "timed out">>)} \cup {Fetched(Arr)}
                      \cup {Fetched(m) : m \in Manifests}

\* the manifests a version of a package may carry
PackageKeySeqs == { <<ExtAExt, ExtB, ExtA>> }

PackageManifests ==
  {Obj(<<>>), Obj(<< <<"require", Arr>> >>)}
  \cup {Obj(<< <<"require", RequireObj(ks)>> >>) : ks \in PackageKeySeqs}

VersionPool == { <<"1", ".", "0">>, <<"d", "e", "v", "-", "m">>,
                 <<"2", ".", "x", "-", "d", "e", "v">> }

\* sequences without repetition over S, of length at most n
RECURSIVE Arrangements(_, _)
Arrangements(S, n) ==
  IF n = 0 THEN {<<>>}
  ELSE LET shorter == Arrangements(S, n - 1) IN
       shorter \cup {Append(p[1], p[2]) :
                       p \in {q \in shorter \X S :
                                \A j \in 1..Len(q[1]) : q[1][j] # q[2]}}

\* sequences over S of length at most n
RECURSIVE SeqsUpTo(_, _)
SeqsUpTo(S, n) ==
  IF n = 0 THEN {<<>>}
  ELSE LET shorter == SeqsUpTo(S, n - 1) IN
       shorter \cup {Append(p[1], p[2]) : p \in shorter \X S}

VersionMappings ==
  UNION {{Obj([j \in 1..Len(a) |-> <<a[j], m[j]>>]) :
            m \in [1..Len(a) -> PackageManifests]} :
         a \in Arrangements(VersionPool, MaxVersions)}

PackageBody(versions) ==
  Obj(<< <<"package", Obj(<< <<"versions", versions>> >>)>> >>)

PackageResponses ==
  {Failed(<<"HTTPError", "404">>), Fetched(Arr), Fetched(Obj(<<>>)),
   Fetched(Obj(<< <<"package", Null>> >>)),
   Fetched(Obj(<< <<"package", Obj(<<>>)>> >>)),
   Fetched(PackageBody(Arr)), Fetched(PackageBody(Null))}
  \cup {Fetched(PackageBody(v)) : v \in VersionMappings}

NamePool == { <<"b">>, <<"a">> }

PopularBody(ns) ==
  Obj(<< <<"packages",
           List([j \in 1..Len(ns) |-> Obj(<< <<"name", Str(ns[j])>> >>)])>> >>)

\* popular-list responses that cannot be fetched or decoded into names
BadPopularResponses ==
  {Failed(<<"URLError", "timed out">>), Fetched(Arr),
   Fetched(Obj(<< <<"packages", Null>> >>)),
   Fetched(Obj(<< <<"packages", List(<<Obj(<<>>)>>)>> >>))}

PopularLists == SeqsUpTo(NamePool, MaxPopular)

PopularResponses ==
  BadPopularResponses \cup {Fetched(Obj(<<>>))}
  \cup {Fetched(PopularBody(ns)) : ns \in PopularLists}

\* os.environ.get("TOP_N"): unset, or its text
Unset == [set |-> FALSE, text |-> <<>>]
Text(s) == [set |-> TRUE, text |-> s]

Environ == {Unset, Text(<<>>), Text(<<"-", "1">>), Text(<<"0">>),
            Text(<<"1">>), Text(<<"2">>)}

\* int(os.environ.get("TOP_N") or "100")
TopN(env) ==
  int(IF env.set /\ env.text # <<>> THEN env.text ELSE <<"1", "0", "0">>)

\* ------------------------------------------------------- framework table
frameworks ==
  << <<"Laravel", "https://raw.githubusercontent.com/laravel/framework/11.x/composer.json">>,
     <<"Symfony", "https://raw.githubusercontent.com/symfony/symfony/7.2/composer.json">>,
     <<"Magento", "https://raw.githubusercontent.com/magento/magento2/2.4-develop/composer.json">>,
     <<"Drupal", "https://raw.githubusercontent.com/drupal/drupal/10.3.x/composer.json">>,
     <<"WordPress", "https://raw.githubusercontent.com/WordPress/wordpress-develop/trunk/composer.json">> >>

POPULAR_URL == <<"https://packagist.org/explore/popular.json">>
PACKAGE_URL(name) == <<"https://packagist.org/packages/{name}.json", name>>

\* ------------------------------------------------------------- extraction
\* k.replace("ext-", "")
stripped(k) == replace(k, ExtPrefix, <<>>)

\* sorted(k.replace("ext-", "") for k in req.keys() if k.startswith("ext-"))
extensions(req) ==
  Bind(SelectSeq(keys(req.items), LAMBDA k : startswith(k, ExtPrefix)),
       LAMBDA picked :
         Bind([j \in 1..Len(picked) |-> stripped(picked[j])], sorted))

\* outcome of a try block: the value built, or the exception raised, as
\* <<type name, ...message>>
Raise(exc) == [exc |-> exc, value |-> <<>>]
Return(v) == [exc |-> <<>>, value |-> v]

\* v.attr on a value that is not a dict: '...' object has no attribute 'attr'
AttributeError(v, attr) == <<"AttributeError", attr>>

\* item["name"] on a value that is not a dict, or iteration over None
TypeError(v) ==
  <<"TypeError", IF v.t = "null" THEN "not iterable" ELSE "indices">>

\* (mutant) a require of the wrong shape is read as an empty mapping
FrameworkTryLenient(url, resp) ==
  IF ~resp.ok THEN Raise(resp.exc)
  ELSE IF resp.body.t # "object" THEN Raise(AttributeError(resp.body, "get"))
  ELSE Bind(get(resp.body, "require", Obj(<<>>)), LAMBDA got :
         Bind(IF got.t = "object" THEN got ELSE Obj(<<>>), LAMBDA req :
           Return([url |-> url,
                   php |-> get(req, PhpKey, Str(<<>>)).s,
                   extensions |-> extensions(req)])))

\* the try block of the per-framework loop, from the response on
FrameworkTry(url, resp) ==
  IF ~resp.ok THEN Raise(resp.exc)
  ELSE IF resp.body.t # "object" THEN Raise(AttributeError(resp.body, "get"))
  ELSE Bind(get(resp.body, "require", Obj(<<>>)), LAMBDA req :
         IF req.t # "object" THEN Raise(AttributeError(req, "keys"))
         ELSE Return([url |-> url,
                      php |-> get(req, PhpKey, Str(<<>>)).s,
                      extensions |-> extensions(req)]))

\* [item["name"] for item in packages]
RECURSIVE itemNames(_)
itemNames(items) ==
  IF items = <<>> THEN Return(<<>>)
  ELSE IF Head(items).t # "object"
       THEN Raise(TypeError(Head(items)))
  ELSE IF ~DictHas(Head(items).items, "name") THEN Raise(<<"KeyError", "name">>)
  ELSE LET rest == itemNames(Tail(items)) IN
       IF rest.exc # <<>> THEN rest
       ELSE Return(<<get(Head(items), "name", Null).s>> \o rest.value)

\* (mutant) a failed popular-list request is taken for an empty list
DiscoverTrySwallow(resp, n) ==
  IF ~resp.ok THEN Return(<<>>)
  ELSE IF resp.body.t # "object" THEN Raise(AttributeError(resp.body, "get"))
  ELSE LET packages == get(resp.body, "packages", List(<<>>)) IN
       IF packages.t = "null" THEN Raise(TypeError(packages))
       ELSE IF packages.t # "array" /\ Truthy(packages)
       THEN Raise(TypeError(packages))
       ELSE IF itemNames(packages.items).exc # <<>> THEN itemNames(packages.items)
       ELSE Return(slice(itemNames(packages.items).value, n))

\* the try block of the popular-list fetch, from the response on
DiscoverTry(resp, n) ==
  IF ~resp.ok THEN Raise(resp.exc)
  ELSE IF resp.body.t # "object" THEN Raise(AttributeError(resp.body, "get"))
  ELSE LET packages == get(resp.body, "packages", List(<<>>)) IN
       IF packages.t = "null" THEN Raise(TypeError(packages))
       ELSE IF packages.t # "array" /\ Truthy(packages)
       THEN Raise(TypeError(packages))
       ELSE IF itemNames(packages.items).exc # <<>> THEN itemNames(packages.items)
       ELSE Return(slice(itemNames(packages.items).value, n))

\* the for/break loop over versions.keys(): the first key without "dev"
RECURSIVE firstStable(_)
firstStable(ks) ==
  IF ks = <<>> THEN [found |-> FALSE, ver |-> <<>>]
  ELSE IF ~contains(Head(ks), Dev) THEN [found |-> TRUE, ver |-> Head(ks)]
  ELSE firstStable(Tail(ks))

\* (mutant) the first entry, stable or not
pickVersionFirst(versions) == Head(keys(versions.items))

\* version = the first stable key, or next(iter(versions.keys()))
pickVersion(versions) ==
  LET first == firstStable(keys(versions.items)) IN
  IF first.found THEN first.ver ELSE Head(keys(versions.items))

\* the try block of the per-package loop, from the response on
PackageTry(resp) ==
  IF ~resp.ok THEN Raise(resp.exc)
  ELSE IF resp.body.t # "object" THEN Raise(AttributeError(resp.body, "get"))
  ELSE Bind(get(resp.body, "package", Obj(<<>>)), LAMBDA pkg :
  IF pkg.t # "object" THEN Raise(AttributeError(pkg, "get"))
  ELSE Bind(get(pkg, "versions", Obj(<<>>)), LAMBDA versions :
  IF ~Truthy(versions) THEN Return(<<>>)
  ELSE IF versions.t # "object" THEN Raise(AttributeError(versions, "keys"))
  ELSE Bind(pickVersion(versions), LAMBDA version :
  Bind(get(versions, version, Obj(<<>>)), LAMBDA manifest :
  IF manifest.t # "object" THEN Raise(AttributeError(manifest, "get"))
  ELSE Bind(get(manifest, "require", Obj(<<>>)), LAMBDA req :
  IF req.t # "object" THEN Raise(AttributeError(req, "keys"))
  ELSE Return(extensions(req)))))))

\* ------------------------------------------------------------------ state
\* scan: which script runs; pc: its position; response: the answer to the
\* request being handled; fetched: the URLs requested so far; discovery: what
\* the popular-list request had returned, once handled; written: the documents written to the
\* output path; the others are the scripts' globals.
VARIABLES scan, pc, TOP_N, i, names, response, results, package_ext, errors,
          counter, all_ext, lines, written, fetched, discovery

vars == <<scan, pc, TOP_N, i, names, response, results, package_ext, errors,
          counter, all_ext, lines, written, fetched, discovery>>

\* (mutant) a source whose try block raised is queried again
nextIndexRetry(idx, outcome) == IF outcome.exc = <<>> THEN idx + 1 ELSE idx

\* the for statement moves on to the next source whatever the try block did
nextIndex(idx, outcome) == idx + 1

PopularLabel == <<"p", "o", "p", "u", "l", "a", "r", " ", "l", "i", "s", "t">>

Init ==
  /\ scan \in {"framework", "packagist"}
  /\ pc = IF scan = "framework" THEN "loop" ELSE "discover"
  /\ TOP_N \in IF scan = "framework" THEN {TopN(Unset)}
               ELSE {TopN(env) : env \in Environ}
  /\ i = 1
  /\ names = IF scan = "framework" THEN keys(frameworks) ELSE <<>>
  /\ response = NoResponse
  /\ results = <<>>
  /\ package_ext = <<>>
  /\ errors = <<>>
  /\ counter = <<>>
  /\ all_ext = <<>>
  /\ lines = <<>>
  /\ written = <<>>
  /\ fetched = <<>>
  /\ discovery = NoResponse

\* for name, url in frameworks.items(): urlopen(url) and json.loads
FrameworkFetch ==
  /\ scan = "framework" /\ pc = "loop" /\ i <= Len(frameworks)
  /\ \E resp \in FrameworkResponses : response' = resp
  /\ fetched' = Append(fetched, frameworks[i][2])
  /\ pc' = "handle"
  /\ UNCHANGED <<scan, TOP_N, i, names, results, package_ext, errors,
                 counter, all_ext, lines, written, discovery>>

\* the rest of the iteration: extraction, results[name] or errors[name]
FrameworkHandle ==
  /\ scan = "framework" /\ pc = "handle"
  /\ \E outcome \in {FrameworkTry(frameworks[i][2], response)} :
     LET name == frameworks[i][1]
     IN /\ IF outcome.exc = <<>>
           THEN /\ results' = DictSet(results, name, outcome.value)
                /\ UNCHANGED errors
           ELSE /\ errors' = DictSet(errors, name, outcome.exc)
                /\ UNCHANGED results
        /\ i' = nextIndex(i, outcome)
  /\ response' = NoResponse
  /\ pc' = "loop"
  /\ UNCHANGED <<scan, TOP_N, names, package_ext, counter, all_ext, lines,
                 written, fetched, discovery>>

\* urlopen(POPULAR_URL) and json.loads
DiscoverFetch ==
  /\ scan = "packagist" /\ pc = "discover"
  /\ \E resp \in PopularResponses : response' = resp
  /\ fetched' = Append(fetched, POPULAR_URL)
  /\ pc' = "discovered"
  /\ UNCHANGED <<scan, TOP_N, i, names, results, package_ext, errors,
                 counter, all_ext, lines, written, discovery>>

\* names = the first TOP_N identifiers, or the top-level error and no names
DiscoverHandle ==
  /\ scan = "packagist" /\ pc = "discovered"
  /\ \E outcome \in {DiscoverTry(response, TOP_N)} :
     IF outcome.exc = <<>>
     THEN /\ names' = outcome.value
          /\ UNCHANGED errors
     ELSE /\ errors' = Append(errors, <<PopularLabel, outcome.exc>>)
          /\ names' = <<>>
  /\ discovery' = response
  /\ response' = NoResponse
  /\ pc' = "loop"
  /\ UNCHANGED <<scan, TOP_N, i, results, package_ext, counter, all_ext,
                 lines, written, fetched>>

\* for name in names: urlopen(PACKAGE_URL.format(name=name)) and json.loads
PackageFetch ==
  /\ scan = "packagist" /\ pc = "loop" /\ i <= Len(names)
  /\ \E resp \in PackageResponses : response' = resp
  /\ fetched' = Append(fetched, PACKAGE_URL(names[i]))
  /\ pc' = "handle"
  /\ UNCHANGED <<scan, TOP_N, i, names, results, package_ext, errors,
                 counter, all_ext, lines, written, discovery>>

\* the rest of the iteration: version choice, extraction, package_ext[name]
\* or an error appended
PackageHandle ==
  /\ scan = "packagist" /\ pc = "handle"
  /\ \E outcome \in {PackageTry(response)} :
     LET name == names[i]
     IN /\ IF outcome.exc = <<>>
           THEN /\ package_ext' = DictSet(package_ext, name, outcome.value)
                /\ UNCHANGED errors
           ELSE /\ errors' = Append(errors, <<name, outcome.exc>>)
                /\ UNCHANGED package_ext
        /\ i' = nextIndex(i, outcome)
  /\ response' = NoResponse
  /\ pc' = "loop"
  /\ UNCHANGED <<scan, TOP_N, names, results, counter, all_ext, lines,
                 written, fetched, discovery>>

\* the lists of a sequence of lists, one after the other
RECURSIVE concat(_)
concat(blocks) ==
  IF blocks = <<>> THEN <<>> ELSE Head(blocks) \o concat(Tail(blocks))

\* the elements of flat without their later repetitions
firstsOf(flat) ==
  LET at == SelectSeq([j \in 1..Len(flat) |-> j],
                      LAMBDA j : \A k \in 1..(j - 1) : flat[k] # flat[j])
  IN [n \in 1..Len(at) |-> flat[at[n]]]

occurrences(flat, e) == Cardinality({k \in 1..Len(flat) : flat[k] = e})

\* counter = Counter(); counter.update(l) for each l of lists: every element
\* of every list adds one to its count, and a key is inserted when it is
\* first met.  (flat and ks are bound once, as values.)
Counter(lists) ==
  CHOOSE c \in {[n \in 1..Len(ks) |-> <<ks[n], occurrences(flat, ks[n])>>] :
                  <<flat, ks>> \in {<<f, firstsOf(f)>> : f \in {concat(lists)}}} : TRUE

\* (mutant) the keys in insertion order
insertionKeys(d) == keys(d)

\* sorted(d.keys())
sortedKeys(d) == sorted(keys(d))

\* the extension lists the counter loop iterates over
ExtensionLists ==
  IF scan = "framework"
  THEN [j \in 1..Len(results) |-> results[j][2].extensions]
  ELSE values(package_ext)

\* counter = Counter(); for ...: counter.update(...); all_ext = sorted(...)
Aggregate ==
  /\ pc = "loop" /\ i > Len(names)
  /\ counter' = Counter(ExtensionLists)
  /\ all_ext' = sortedKeys(counter')
  /\ pc' = "render"
  /\ UNCHANGED <<scan, TOP_N, i, names, response, results, package_ext,
                 errors, lines, written, fetched, discovery>>

\* ---------------------------------------------------------------- report
\* A line of the document is [kind, arg]: what it is and the value it shows.
Line(kind, arg) == [kind |-> kind, arg |-> arg]
Blank == Line("blank", <<>>)

\* ", ".join(ext) if ext else placeholder
joinOr(ext, placeholder) ==
  IF ext # <<>> THEN Line("joined", ext) ELSE Line("text", placeholder)

\* if errors: "## Fetch errors" and one item per error
ErrorSection ==
  IF errors = <<>> THEN <<>>
  ELSE <<Line("h2", "Fetch errors"), Blank>>
       \o [j \in 1..Len(errors) |-> Line("error", errors[j])]
       \o <<Blank>>

UnionSection ==
  <<Line("h2", "Aggregate (union)"), Blank, joinOr(all_ext, "(none)"), Blank>>

FrequencySection ==
  LET exts == sortedKeys(counter) IN
  <<Line("h2", "Frequency"), Blank,
    Line("text", "| Extension | Count |"), Line("text", "| --- | --- |")>>
  \o [j \in 1..Len(exts) |-> Line("row", <<exts[j], DictGet(counter, exts[j], 0)>>)]
  \o <<Blank>>

\* the block of one framework: for name, info in results.items()
FrameworkBlock(name, info) ==
  <<Line("h3", name), Blank, Line("source", info.url)>>
  \o (IF info.php # <<>> THEN <<Line("php", info.php)>> ELSE <<>>)
  \o <<Line("text", "Extensions:"),
       joinOr(info.extensions, "(none found in composer.json)"), Blank>>

FrameworkSection ==
  <<Line("h2", "Per-framework requirements"), Blank>>
  \o concat([j \in 1..Len(results) |-> FrameworkBlock(results[j][1], results[j][2])])

FrameworkLines ==
  <<Line("h1", "PHP Extension Requirements (Framework Scan)"), Blank,
    Line("generated", <<>>), Blank,
    Line("text", "Sources: composer.json require ext-* keys (framework repos)."),
    Blank>>
  \o ErrorSection \o FrameworkSection \o UnionSection \o FrequencySection

\* (mutant) the packages in the order they were queried
PackageSectionUnsorted ==
  LET order == keys(package_ext) IN
  <<Line("h2", "Per-package (extensions)"), Blank>>
  \o [j \in 1..Len(order) |->
        Line("package", <<order[j], joinOr(DictGet(package_ext, order[j], <<>>), "(none)")>>)]

\* for name in sorted(package_ext.keys())
PackageSection ==
  LET order == sortedKeys(package_ext) IN
  <<Line("h2", "Per-package (extensions)"), Blank>>
  \o [j \in 1..Len(order) |->
        Line("package", <<order[j], joinOr(DictGet(package_ext, order[j], <<>>), "(none)")>>)]

PackageLines ==
  <<Line("h1", "PHP Extension Requirements (Top Composer Packages)"), Blank,
    Line("generated", <<>>), Line("topn", TOP_N), Blank,
    Line("text", "Sources: packagist popular list + package.json require ext-* keys."),
    Blank>>
  \o ErrorSection \o UnionSection \o FrequencySection \o PackageSection

\* build the lines, then out_path.write_text("\n".join(lines))
Render ==
  /\ pc = "render"
  /\ lines' = IF scan = "framework" THEN FrameworkLines ELSE PackageLines
  /\ written' = Append(written, lines')
  /\ pc' = "done"
  /\ UNCHANGED <<scan, TOP_N, i, names, response, results, package_ext,
                 errors, counter, all_ext, fetched, discovery>>

Next ==
  \/ FrameworkFetch \/ FrameworkHandle
  \/ DiscoverFetch \/ DiscoverHandle
  \/ PackageFetch \/ PackageHandle
  \/ Aggregate \/ Render

Spec == Init /\ [][Next]_vars

\* the scripts run to completion: every request returns or times out
FairSpec == Spec /\ WF_vars(Next)
\* ---------------------------------------------------------------- claims
Done == pc = "done"
Aggregated == pc \in {"render", "done"}

Range(s) == {s[j] : j \in 1..Len(s)}
Distinct(s) == \A j, k \in 1..Len(s) : j # k => s[j] # s[k]
Ascending(s) == \A j \in 1..(Len(s) - 1) : LexLess(s[j], s[j + 1])

\* the results mapping of the running scan, and membership in it and in errors
Recorded == IF scan = "framework" THEN results ELSE package_ext
InResults(n) == DictHas(Recorded, n)
InErrors(n) == DictHas(errors, n)

\* the popular-list request came back with something that yields no names
DiscoveryFailed == scan = "packagist" /\ discovery \in BadPopularResponses

\* C1 as stated: at the end of the run every enumerated source name is in
\* exactly one of results and errors, and len(results) + len(errors) is the
\* number of enumerated sources.
C1_Original ==
  Done =>
    /\ \A j \in 1..Len(names) : InResults(names[j]) # InErrors(names[j])
    /\ Len(Recorded) + Len(errors) = Len(names)

\* C1: at the end of the run every enumerated source name is in results or in
\* errors; when the enumerated names are pairwise distinct none is in both,
\* and len(results) + len(errors) is the number of enumerated sources, plus
\* one when the popular-list fetch failed.
C1_Theorem ==
  Done =>
    /\ \A j \in 1..Len(names) : InResults(names[j]) \/ InErrors(names[j])
    /\ Distinct(names) =>
         /\ \A j \in 1..Len(names) : ~(InResults(names[j]) /\ InErrors(names[j]))
         /\ Len(Recorded) + Len(errors)
              = Len(names) + (IF DiscoveryFailed THEN 1 ELSE 0)

C1_Witness ==
  /\ Done /\ scan = "packagist"
  /\ Len(names) = 2 /\ Distinct(names)
  /\ InResults(names[1]) /\ InErrors(names[2])

\* the versions mapping of a package response
VersionsOf(resp) ==
  get(get(resp.body, "package", Obj(<<>>)), "versions", Obj(<<>>))

IsVersionsBody(resp) ==
  /\ resp.ok /\ resp.body.t = "object"
  /\ get(resp.body, "package", Obj(<<>>)).t = "object"
  /\ VersionsOf(resp).t = "object"

\* the manifest the extraction of the source being handled reads
LastManifest ==
  IF scan = "framework" THEN response.body
  ELSE get(VersionsOf(response), pickVersion(VersionsOf(response)), Obj(<<>>))

\* a source's response is being handled, and it carries a manifest
HasManifest ==
  /\ pc = "handle" /\ response.ok
  /\ scan = "packagist" =>
       IsVersionsBody(response) /\ VersionsOf(response).items # <<>>
  /\ LastManifest.t = "object"

HasRequireMapping(m) == m.t = "object" /\ get(m, "require", Obj(<<>>)).t = "object"

WrongShapeRequire(m) ==
  /\ m.t = "object" /\ DictHas(m.items, "require")
  /\ get(m, "require", Null).t # "object"

\* the extension list of an entry of the results mapping
ExtOf(v) == IF scan = "framework" THEN v.extensions ELSE v

\* a key without its leading prefix
withoutPrefix(k) == SubSeq(k, Len(ExtPrefix) + 1, Len(k))

PrefixedKeys(m) ==
  {k \in Range(keys(get(m, "require", Obj(<<>>)).items)) : startswith(k, ExtPrefix)}

C2_Step ==
  (HasManifest /\ HasRequireMapping(LastManifest)) =>
    /\ DictHas(Recorded', names[i])
    /\ LET ext == ExtOf(DictGet(Recorded', names[i], <<>>))
           ks == PrefixedKeys(LastManifest)
       IN /\ Len(ext) = Cardinality(ks)
          /\ Range(ext) = {withoutPrefix(k) : k \in ks}
          /\ \A j \in 1..Len(ext) : ~startswith(ext[j], ExtPrefix)
          /\ Ascending(ext)

\* C2 as stated: the extension list recorded for a manifest whose require is
\* a mapping holds one name per key that begins with "ext-", each name being
\* the key without its leading prefix; no name begins with the prefix and the
\* list is strictly ascending.
C2_Claim == [][C2_Step]_vars

\* the number of successful sources whose extension list contains e
SourcesWith(e) ==
  Cardinality({s \in 1..Len(ExtensionLists) : e \in Range(ExtensionLists[s])})

\* C3 as stated: after aggregation every frequency value is the number of
\* successful sources whose list contains the name, hence at most len(results).
C3_Claim ==
  Aggregated =>
    \A j \in 1..Len(counter) :
      /\ counter[j][2] = SourcesWith(counter[j][1])
      /\ counter[j][2] <= Len(Recorded)

\* C10: after aggregation the union is strictly ascending, its elements are
\* exactly the elements of the successful sources' extension lists, and it is
\* empty exactly when every such list is empty.
C10_Theorem ==
  Aggregated =>
    /\ Ascending(all_ext)
    /\ Range(all_ext)
         = UNION {Range(ExtensionLists[s]) : s \in 1..Len(ExtensionLists)}
    /\ (all_ext = <<>>)
         <=> (\A s \in 1..Len(ExtensionLists) : ExtensionLists[s] = <<>>)

C10_Witness == Aggregated /\ Len(all_ext) = 2 /\ keys(counter) # all_ext

\* the URL of the j-th enumerated source, and the requests of a whole run
SourceURL(j) ==
  IF scan = "framework" THEN frameworks[j][2] ELSE PACKAGE_URL(names[j])

AllFetches ==
  (IF scan = "packagist" THEN <<POPULAR_URL>> ELSE <<>>)
  \o [j \in 1..Len(names) |-> SourceURL(j)]

C4_Step ==
  /\ (pc = "loop" /\ pc' = "handle") =>
       /\ fetched' = Append(fetched, SourceURL(i))
       /\ i' = i /\ Recorded' = Recorded /\ errors' = errors
  /\ pc = "handle" =>
       /\ pc' = "loop" /\ i' = i + 1 /\ fetched' = fetched
       /\ \/ /\ response.ok
             /\ DictHas(Recorded', names[i])
             /\ errors' = errors
          \/ /\ Recorded' = Recorded
             /\ Len(errors') = Len(errors) + 1
             /\ errors'[Len(errors')][1] = names[i]
       /\ ~response.ok => Len(errors') = Len(errors) + 1
  /\ Len(written') <= 1

\* C4: each enumerated source is requested once, in enumeration order; the
\* handling of a response, failed or not, moves on to the next source, a
\* failed one leaving exactly one error record; and the run reaches the end
\* with the report written once and every source requested.
C4_Theorem ==
  /\ [][C4_Step]_vars
  /\ <>(Done /\ Len(written) = 1 /\ fetched = AllFetches)

C4_Witness ==
  /\ Done /\ scan = "framework"
  /\ InErrors("Symfony") /\ InResults("Magento")
  /\ fetched = AllFetches /\ Len(written) = 1

C5_OriginalStep ==
  (HasManifest /\ WrongShapeRequire(LastManifest)) =>
    /\ DictHas(Recorded', names[i])
    /\ ExtOf(DictGet(Recorded', names[i], <<>>)) = <<>>
    /\ scan = "framework" => DictGet(Recorded', names[i], <<>>).php = <<>>
    /\ errors' = errors

\* C5 as stated: a fetched manifest whose require is not a mapping is recorded
\* as a success with no extensions and no constraint, and no error.
C5_Original == [][C5_OriginalStep]_vars

C5_Step ==
  (HasManifest /\ WrongShapeRequire(LastManifest)) =>
    /\ Recorded' = Recorded
    /\ errors' = Append(errors, <<names[i], <<"AttributeError", "keys">> >>)

\* C5: a fetched manifest whose require is present but not a mapping makes
\* the extraction raise; the source is recorded in errors, with one record,
\* and not in results.
C5_Theorem == [][C5_Step]_vars

C5_Witness ==
  /\ Done /\ scan = "framework"
  /\ DictGet(errors, "Laravel", <<>>) = <<"AttributeError", "keys">>
  /\ ~InResults("Laravel")

\* the popular-list request came back with a list of names (possibly none)
Discovered ==
  scan = "packagist" /\ discovery.ok /\ discovery \notin BadPopularResponses

PopularNames ==
  LET items == get(discovery.body, "packages", List(<<>>)).items
  IN [j \in 1..Len(items) |-> get(items[j], "name", Null).s]

\* the first n elements of a list, all of them when n is at least its length
FirstN(L, n) ==
  SubSeq(L, 1, IF n < 0 THEN 0 ELSE IF n > Len(L) THEN Len(L) ELSE n)

\* C6 as stated: the run requests the popular list once and then each of the
\* first TOP_N identifiers of the list, in list order, and nothing else.
C6_Claim ==
  (Done /\ Discovered) =>
    fetched = <<POPULAR_URL>>
              \o [j \in 1..Len(FirstN(PopularNames, TOP_N)) |->
                    PACKAGE_URL(FirstN(PopularNames, TOP_N)[j])]

C7_Safety ==
  DiscoveryFailed =>
    /\ fetched = <<POPULAR_URL>>
    /\ Len(errors) = 1 /\ errors[1][1] = PopularLabel
    /\ package_ext = <<>> /\ names = <<>>

\* C7: once the popular-list fetch has failed, no package is ever requested,
\* errors holds the one top-level record, the results mapping stays empty,
\* and the run goes on to write the report.
C7_Theorem ==
  /\ [](C7_Safety)
  /\ DiscoveryFailed ~> (Done /\ Len(written) = 1)

C7_Witness == DiscoveryFailed /\ Done /\ Len(written) = 1 /\ Len(errors) = 1

\* the version the rule names: the first key without "dev", else the first
claimedVersion(versions) ==
  LET ks == keys(versions.items)
      stable == {j \in 1..Len(ks) : ~contains(ks[j], Dev)}
  IN IF stable = {} THEN ks[1]
     ELSE ks[CHOOSE j \in stable : \A k \in stable : j <= k]

C8_Step ==
  (pc = "handle" /\ scan = "packagist" /\ IsVersionsBody(response)) =>
    IF VersionsOf(response).items = <<>>
    THEN /\ DictHas(package_ext', names[i])
         /\ DictGet(package_ext', names[i], <<>>) = <<>>
         /\ errors' = errors
    ELSE LET manifest == get(VersionsOf(response),
                             claimedVersion(VersionsOf(response)), Null)
         IN HasRequireMapping(manifest) =>
              /\ DictHas(package_ext', names[i])
              /\ DictGet(package_ext', names[i], <<>>)
                   = extensions(get(manifest, "require", Obj(<<>>)))
              /\ errors' = errors

\* C8: the list recorded for a package is extracted from the first version
\* whose string does not contain "dev", or from the first version when all
\* contain it; an empty versions mapping records the package with an empty
\* list and no error.
C8_Theorem == [][C8_Step]_vars

C8_Witness ==
  /\ pc = "handle" /\ scan = "packagist" /\ IsVersionsBody(response)
  /\ LET vs == VersionsOf(response).items
     IN /\ Len(vs) = 2
        /\ contains(vs[1][1], Dev) /\ ~contains(vs[2][1], Dev)
        /\ HasRequireMapping(vs[1][2]) /\ HasRequireMapping(vs[2][2])
        /\ extensions(get(vs[1][2], "require", Obj(<<>>)))
             # extensions(get(vs[2][2], "require", Obj(<<>>)))

\* the positions and names of the per-source detail entries of the report
DetailKind == IF scan = "framework" THEN "h3" ELSE "package"

DetailAt ==
  SelectSeq([j \in 1..Len(lines) |-> j], LAMBDA j : lines[j].kind = DetailKind)

DetailNames ==
  [n \in 1..Len(DetailAt) |->
     IF scan = "framework" THEN lines[DetailAt[n]].arg
     ELSE lines[DetailAt[n]].arg[1]]

ErrorsAt == {j \in 1..Len(lines) : lines[j].kind = "error"}

HeadingAt(title) ==
  {j \in 1..Len(lines) : lines[j].kind = "h2" /\ lines[j].arg = title}

AggregateAt == HeadingAt("Aggregate (union)") \cup HeadingAt("Frequency")

\* the names in the results mapping, in enumeration order
Successful == firstsOf(SelectSeq(names, LAMBDA n : InResults(n)))

\* C9 as stated: the report has one detail entry per successful source and
\* none for a failed one, in enumeration order, after the error list and
\* before the union and frequency sections.
C9_Original ==
  Done =>
    /\ DetailNames = Successful
    /\ \A d \in Range(DetailAt) :
         /\ \A e \in ErrorsAt : e < d
         /\ \A h \in AggregateAt : d < h

\* C9: the report has one detail entry per name of the results mapping and no
\* other; the framework scan lists them in enumeration order between the
\* error list and the union section, the package scan lists them in ascending
\* name order after the frequency section.
C9_Theorem ==
  Done =>
    /\ written = <<lines>>
    /\ \A d \in Range(DetailAt) : \A e \in ErrorsAt : e < d
    /\ IF scan = "framework"
       THEN /\ DetailNames = Successful
            /\ \A d \in Range(DetailAt) : \A h \in AggregateAt : d < h
       ELSE /\ DetailNames = sorted(Successful)
            /\ \A d \in Range(DetailAt) : \A h \in AggregateAt : h < d

C9_Witness ==
  /\ Done /\ scan = "packagist"
  /\ keys(package_ext) = << <<"b">>, <<"a">> >>
  /\ Len(DetailAt) = 2
====
